---- MODULE Spec2Model ----
(***************************************************************************)
(* Model of the authentication / authorization layer of flytrap_api:       *)
(*   app/utils/auth/token_manager.py   TokenManager                        *)
(*   app/utils/auth/auth_manager.py    AuthManager (decorators as wired in *)
(*                                     app/routes/users.py and             *)
(*                                     app/routes/project_issues.py)       *)
(*   app/utils/auth/jwt_auth.py        JWTAuth (the refreshing guard)      *)
(*                                                                         *)
(* A request is a small state machine: it is started with its inputs (the  *)
(* route it hits, the Authorization header, the refresh_token cookie),     *)
(* runs the guard, possibly the refresh flow, possibly the handler, and    *)
(* ends with a response.  The clock and the project membership table are   *)
(* owned by the environment and may change between the steps of a request. *)
(***************************************************************************)
EXTENDS Integers, Sequences, FiniteSets, TLC

\* ------------------------------------------------------------------ bounds
\* The clock advances at most MaxTicks times (each time by AccessTTL).
MaxTicks == 2
\* A request's handler raises a jwt error at most MaxRaise times.
MaxRaise == 1
\* The wall clock of the token issuer runs for MaxClock seconds.
MaxClock == 21

\* ------------------------------------------------------- program constants
\* create_access_token(expires_in=20): seconds.
AccessTTL == 20
\* create_refresh_token(expires_in=7): days.
RefreshTTLDays == 7
\* datetime.timedelta(days=expires_in), in seconds per day.
DaySeconds == 86400
RefreshTTL == RefreshTTLDays * DaySeconds

\* --------------------------------------------------------------- universe
Users == {"u1", "u2"}
Projects == {"p1"}
\* The users table's is_root column (owned by the data layer).
RootUsers == {"u1"}
\* The secret a token is signed with: the server's SECRET_KEY or another one.
ServerKey == "server"
OtherKey == "other"
\* A path parameter that is not among the keyword arguments of the call.
Absent == "<absent>"
\* A path parameter / token string that is the empty string.
Empty == ""

\* ----------------------------------------------------------------- tokens
\* jwt.encode({"user_uuid", "is_root", "exp"}, key, "HS256"): the token
\* string is modelled by the claims it carries and the key that signed it.
Token(user_uuid, is_root, exp, key) ==
    [user_uuid |-> user_uuid, is_root |-> is_root, exp |-> exp, key |-> key]

\* No token: None, or the empty string (both are falsy in `if not token`).
NoToken == Token(Empty, FALSE, 0, "none")

\* datetime.datetime.utcnow(): seconds since the epoch and the microsecond
\* within the second (here on the second or half way through it).
Datetime(second, microsecond) == [second |-> second, microsecond |-> microsecond]
HalfSecond == 500000
\* dt + datetime.timedelta(seconds=n)
plus_seconds(dt, n) == Datetime(dt.second + n, dt.microsecond)
\* calendar.timegm(dt.utctimetuple()), what jwt.encode stores for a datetime
\* exp: whole seconds, the microsecond is dropped.
timegm(dt) == dt.second
\* The payload jwt.decode returns for a token it accepts.
Claims(token) ==
    [user_uuid |-> token.user_uuid, is_root |-> token.is_root, exp |-> token.exp]

\* create_refresh_token as it would be if expires_in were taken as seconds.
create_refresh_token_in_seconds(user_uuid, is_root, utcnow) ==
    Token(user_uuid, is_root, utcnow + RefreshTTLDays, ServerKey)

\* In create_access_token and create_refresh_token utcnow is the clock in
\* whole seconds: exp = timegm(utcnow() + timedelta(...)).
create_access_token(user_uuid, is_root, utcnow) ==
    Token(user_uuid, is_root, utcnow + AccessTTL, ServerKey)

create_refresh_token(user_uuid, is_root, utcnow) ==
    Token(user_uuid, is_root, utcnow + RefreshTTL, ServerKey)

\* decode_token as it would be if a token were still accepted at the very
\* second its exp names.
decode_token_exp_inclusive(token, utcnow) ==
    IF token.key # ServerKey THEN "InvalidTokenError"
    ELSE IF token.exp < utcnow THEN "ExpiredSignatureError"
    ELSE "ok"

\* jwt.decode(token, SECRET_KEY, algorithms=["HS256"]) at time utcnow: the
\* signature is verified first, the exp claim after it.
decode_token(token, utcnow) ==
    IF token.key # ServerKey THEN "InvalidTokenError"
    ELSE IF token.exp <= utcnow THEN "ExpiredSignatureError"
    ELSE "ok"

\* ---------------------------------------------------- Authorization header
\* The header value split on " ": parts is the number of pieces (0 when the
\* header is absent or empty), token is the second piece when there is one.
Header(parts, token) == [parts |-> parts, token |-> token]

\* _get_token's result: the token (NoToken for None / ""), or an exception.
Got(token, raised) == [token |-> token, raised |-> raised]

\* AuthManager._get_token: auth_header.split(" ")[1] if auth_header else None.
AM_get_token(h) ==
    IF h.parts = 0 THEN Got(NoToken, FALSE)
    ELSE IF h.parts = 1 THEN Got(NoToken, TRUE)      \* IndexError
    ELSE Got(h.token, FALSE)

\* JWTAuth._get_token: the second piece when there are exactly two.
JWT_get_token(h) ==
    IF h.parts = 2 THEN Got(h.token, FALSE) ELSE Got(NoToken, FALSE)

\* ------------------------------------------------------------ refresh flow
Refreshed(token, message) == [token |-> token, message |-> message]

\* refresh_access_token as it would be if it minted the access token without
\* the refresh token's is_root claim.
refresh_access_token_drops_root(cookie, utcnow) ==
    IF cookie = NoToken THEN Refreshed(NoToken, "No refresh token found")
    ELSE IF decode_token(cookie, utcnow) = "ok"
         THEN Refreshed(create_access_token(cookie.user_uuid, FALSE, utcnow), "")
    ELSE IF decode_token(cookie, utcnow) = "ExpiredSignatureError"
         THEN Refreshed(NoToken, "Token expired")
    ELSE Refreshed(NoToken, "Invalid token")

\* TokenManager.refresh_access_token, on the refresh_token cookie.
refresh_access_token(cookie, utcnow) ==
    IF cookie = NoToken THEN Refreshed(NoToken, "No refresh token found")
    ELSE IF decode_token(cookie, utcnow) = "ok"
         THEN Refreshed(create_access_token(cookie.user_uuid, cookie.is_root, utcnow), "")
    ELSE IF decode_token(cookie, utcnow) = "ExpiredSignatureError"
         THEN Refreshed(NoToken, "Token expired")
    ELSE Refreshed(NoToken, "Invalid token")

\* get_new_access_token() -> (response, status): the JSON body carries
\* "access_token" on success and the refresh error otherwise; the status is
\* 401 when no refresh token was presented and 403 when it is invalid or
\* expired.
get_new_access_token(cookie, utcnow) ==
    LET r == refresh_access_token(cookie, utcnow) IN
    [access_token |-> r.token,
     message |-> r.message,
     status |-> IF r.token # NoToken THEN 200
                ELSE IF cookie = NoToken THEN 401 ELSE 403]

\* ------------------------------------------------------------ data layer
\* get_user_root_info(user_uuid): the users table's is_root of that user.
get_user_root_info(user_uuid) == user_uuid \in RootUsers

\* bcrypt.hashpw(password, bcrypt.gensalt()): the hash is determined by the
\* password and the salt drawn for it.
Hash(password, salt) == [password |-> password, salt |-> salt]
Salts == {"s1", "s2"}
\* The hash every user's row holds before any update.
InitialHash == Hash("initial", "s0")

\* update_password as it would be if the UPDATE had no WHERE clause.
update_password_every_row(hashes, user_uuid, hash) ==
    [hashes |-> [u \in DOMAIN hashes |-> hash],
     success |-> DOMAIN hashes # {}]

\* generate_uuid(): a uuid no row has yet.
NewUuids == {"n1"}
generate_uuid(hashes) == NewUuids \ DOMAIN hashes

\* add_user(first_name, last_name, email, password_hash): INSERT INTO users
\* a row with a generated uuid, which it returns.
add_user(hashes, uuid, hash) ==
    [u \in DOMAIN hashes \cup {uuid} |-> IF u = uuid THEN hash ELSE hashes[u]]

\* is_valid_email(email)
ValidEmails == {"jane@smith.com"}
is_valid_email(email) == email \in ValidEmails

\* update_password(user_uuid, password_hash) on the password_hash column:
\* UPDATE users SET password_hash = ... WHERE uuid = ..., rows_updated > 0.
update_password(hashes, user_uuid, hash) ==
    [hashes |-> IF user_uuid \in DOMAIN hashes
                THEN [hashes EXCEPT ![user_uuid] = hash] ELSE hashes,
     success |-> user_uuid \in DOMAIN hashes]

\* `if x:` on a path parameter: None (absent) and "" are falsy.
Truthy(x) == x \notin {Absent, Empty}

\* ---------------------------------------------------------------- policies
\* A policy decision: allow (call the wrapped function) or a rejection.
Decision(allow, status, message) ==
    [allow |-> allow, status |-> status, message |-> message]
Allow == Decision(TRUE, 0, "")

\* authorize_root as it would be if it asked the users table for the subject's
\* root status instead of reading the token's is_root claim.
AM_authorize_root_by_table(payload) ==
    IF get_user_root_info(payload.user_uuid) THEN Allow
    ELSE Decision(FALSE, 403, "Unauthorized")

\* AuthManager.authorize_root
AM_authorize_root(payload) ==
    IF payload.is_root THEN Allow ELSE Decision(FALSE, 403, "Unauthorized")

\* authorize_project_access as it would be if it asked whether the project
\* has members instead of whether the subject is one of them.
AM_authorize_project_access_any_member(payload, project_uuid, members) ==
    IF payload.is_root THEN Allow
    ELSE IF Truthy(project_uuid) /\ members # {} THEN Allow
    ELSE Decision(FALSE, 403, "Unauthorized for this project")

\* AuthManager.authorize_project_access; members = fetch_project_users(project_uuid)
AM_authorize_project_access(payload, project_uuid, members) ==
    IF payload.is_root THEN Allow
    ELSE IF Truthy(project_uuid) /\ payload.user_uuid \in members THEN Allow
    ELSE Decision(FALSE, 403, "Unauthorized for this project")

\* authorize_user as it would be if it answered a mismatch the way
\* authenticate answers an undecodable token.
AM_authorize_user_as_invalid_token(payload, user_uuid) ==
    IF payload.user_uuid = user_uuid THEN Allow
    ELSE Decision(FALSE, 401, "Invalid token")

\* authorize_user as it would be if a root subject were let through for any
\* user_uuid.
AM_authorize_user_or_root(payload, user_uuid) ==
    IF payload.is_root \/ payload.user_uuid = user_uuid THEN Allow
    ELSE Decision(FALSE, 403, "Unauthorized")

\* AuthManager.authorize_user; kwargs.get("user_uuid") is None when absent.
AM_authorize_user(payload, user_uuid) ==
    IF payload.user_uuid = user_uuid THEN Allow
    ELSE Decision(FALSE, 403, "Unauthorized")

\* JWTAuth._authenticate_root
JWT_authenticate_root(payload) ==
    IF payload.is_root = TRUE THEN Allow ELSE Decision(FALSE, 403, "Unathorized")

\* JWTAuth.authorize_user_for_project
JWT_authorize_user_for_project(payload, project_uuid, members) ==
    IF Truthy(project_uuid)
    THEN IF payload.user_uuid \in members \/ payload.is_root = TRUE
         THEN Allow
         ELSE Decision(FALSE, 403, "Unauthorized for this project")
    ELSE Allow

\* authorize_for_user_specific_operation as it would be if the bypass read
\* `is_root or f.__name__ == 'get_user_projects'`.
JWT_authorize_for_user_specific_operation_or(payload, user_uuid, fname) ==
    IF Truthy(payload.user_uuid)
    THEN IF get_user_root_info(payload.user_uuid) \/ fname = "get_user_projects"
         THEN Allow
         ELSE IF payload.user_uuid # user_uuid
              THEN Decision(FALSE, 403, "Unauthorized")
              ELSE Allow
    ELSE Decision(FALSE, 500, "Token error")

\* authorize_for_user_specific_operation as it would be if the bypass read
\* the token's is_root claim instead of asking the users table.
JWT_authorize_for_user_specific_operation_by_claim(payload, user_uuid, fname) ==
    IF Truthy(payload.user_uuid)
    THEN IF payload.is_root = TRUE /\ fname = "get_user_projects"
         THEN Allow
         ELSE IF payload.user_uuid # user_uuid
              THEN Decision(FALSE, 403, "Unauthorized")
              ELSE Allow
    ELSE Decision(FALSE, 500, "Token error")

\* JWTAuth.authorize_for_user_specific_operation; fname is f.__name__
JWT_authorize_for_user_specific_operation(payload, user_uuid, fname) ==
    IF Truthy(payload.user_uuid)
    THEN IF get_user_root_info(payload.user_uuid) /\ fname = "get_user_projects"
         THEN Allow
         ELSE IF payload.user_uuid # user_uuid
              THEN Decision(FALSE, 403, "Unauthorized")
              ELSE Allow
    ELSE Decision(FALSE, 500, "Token error")

\* ------------------------------------------------------------------ routes
\* What a request hits: the guard in front of the wrapped function, the
\* decorator stacked under AuthManager.authenticate (AuthManager) or the
\* root_required argument (JWTAuth), the keyword arguments of the call (the
\* path parameters) and the wrapped function's name.
Route(guard, decorator, root_required, project_uuid, user_uuid, fname) ==
    [guard |-> guard, decorator |-> decorator, root_required |-> root_required,
     project_uuid |-> project_uuid, user_uuid |-> user_uuid, fname |-> fname]

NoRoute == Route("", "", FALSE, Absent, Absent, "")

AMRoutes ==
    {Route("AuthManager", "none", FALSE, Absent, Absent, "get_session_info")}
    \cup {Route("AuthManager", "root", FALSE, Absent, Absent, "get_users"),
          Route("AuthManager", "root", FALSE, Absent, "u2", "delete_user")}
    \cup {Route("AuthManager", "project", FALSE, p, Absent, "get_issues") :
            p \in Projects \cup {Empty, Absent}}
    \cup {Route("AuthManager", "user", FALSE, Absent, u, f) :
            u \in Users, f \in {"update_user_password", "get_user_projects"}}
    \cup {Route("AuthManager", "user", FALSE, Absent, Absent, "update_user_password")}

JWTRoutes ==
    {Route("JWTAuth", "", TRUE, Absent, Absent, "get_users"),
     Route("JWTAuth", "", TRUE, Absent, "u2", "delete_user")}
    \cup {Route("JWTAuth", "", FALSE, p, Absent, "get_issues") :
            p \in Projects \cup {Empty}}
    \cup {Route("JWTAuth", "", FALSE, Absent, u, f) :
            u \in Users, f \in {"update_user_password", "get_user_projects"}}
    \cup {Route("JWTAuth", "", FALSE, Absent, Absent, "get_session_info")}

Routes == AMRoutes \cup JWTRoutes

\* The status the wrapped function answers with when it returns.
HandlerStatus(fname) ==
    IF fname \in {"update_user_password", "delete_user"} THEN 204 ELSE 200

\* ---------------------------------------------------------- request inputs
\* Tokens a client can present at time t: issued by the server and still
\* valid, issued by the server and expired, signed with another secret, or
\* the refresh token the server issued to it.
BearerTokens(t) ==
    {Token(u, b, t + AccessTTL, ServerKey) : u \in Users, b \in BOOLEAN}
    \cup {Token(u, b, t, ServerKey) : u \in Users, b \in BOOLEAN}
    \cup {Token("u1", TRUE, t + AccessTTL, OtherKey), Token("u1", TRUE, t, OtherKey)}
    \cup {create_refresh_token("u2", FALSE, t)}

Headers(t) ==
    {Header(0, NoToken), Header(1, NoToken), Header(2, NoToken),
     Header(3, Token("u1", TRUE, t + AccessTTL, ServerKey))}
    \cup {Header(2, tok) : tok \in BearerTokens(t)}

\* The refresh_token cookie: absent, valid, expired, signed with another
\* secret, or holding an access token the server issued.
Cookies(t) ==
    {NoToken}
    \cup {Token(u, b, t + RefreshTTL, ServerKey) : u \in Users, b \in BOOLEAN}
    \cup {Token("u2", FALSE, t, ServerKey), Token("u1", TRUE, t + RefreshTTL, OtherKey)}
    \cup {create_access_token("u2", FALSE, t)}

\* ------------------------------------------------------------------- state
\* The request slots of the specification Spec: requests run one at a time.
OneAtATime == {"r1"}

VARIABLES
    now,            \* datetime.utcnow(), in seconds
    projectUsers,   \* the projects_users table: project -> set of user uuids
    req,            \* per request: its inputs, its position and its response
    password_hash,  \* the users table's password_hash column: user -> hash
    issuer          \* a token issued and decoded outside any guard

vars == <<now, projectUsers, req, password_hash, issuer>>

\* The issuer's state: its wall clock, the token it issued with the inputs of
\* the create_*_token call, and what decode_token answered for it.
Issue(pc, clock, kind, user_uuid, is_root, issued_at, token, result, claims) ==
    [pc |-> pc, clock |-> clock, kind |-> kind, user_uuid |-> user_uuid,
     is_root |-> is_root, issued_at |-> issued_at, token |-> token,
     result |-> result, claims |-> claims]
IssuerIdle(clock) ==
    Issue("idle", clock, "", Empty, FALSE, Datetime(0, 0), NoToken, "", Claims(NoToken))
NoIssue == IssuerIdle(Datetime(0, 0))

\* The request slots of the running specification.
Reqs == DOMAIN req

\* fetch_project_users(project_uuid): the users assigned to the project.
fetch_project_users(project_uuid) ==
    IF project_uuid \in Projects THEN projectUsers[project_uuid] ELSE {}

\* The last policy evaluation of a request: the policy, the decoded token it
\* was evaluated on, the membership set it was given, its outcome, and the
\* number of handler calls before it.
Evaluated(policy, token, members, allow, calls) ==
    [policy |-> policy, token |-> token, members |-> members,
     allow |-> allow, calls |-> calls]
NoDec == Evaluated("", NoToken, {}, FALSE, 0)

\* The last jwt.decode of a request's guard: the token it was given, how it
\* ended, and whether the token's exp had passed at that time.
Decoded(token, result, passed) ==
    [token |-> token, result |-> result, passed |-> passed]
NoDecode == Decoded(NoToken, "", FALSE)

\* request.json of create_user: the five fields it reads ("" when missing).
Form(first_name, last_name, email, password, confirmed_password) ==
    [first_name |-> first_name, last_name |-> last_name, email |-> email,
     password |-> password, confirmed_password |-> confirmed_password]
\* No JSON body, or an empty one.
NoForm == Form(Empty, Empty, Empty, Empty, Empty)
\* A response without a "payload".
NoJson == [k \in {} |-> Empty]

Idle ==
    [pc |-> "idle", route |-> NoRoute, header |-> Header(0, NoToken),
     cookie |-> NoToken,
     t0 |-> 0,                  \* the time the request arrived
     payload |-> NoToken,       \* g.user_payload
     frames |-> <<>>,           \* new_access_token of each pending handle_expired_access_token
     refreshes |-> 0,           \* calls of get_new_access_token
     reexpired |-> FALSE,       \* a minted token was reported expired on decode
     calls |-> 0,               \* invocations of the wrapped function
     raises |-> 0,              \* jwt errors raised by the wrapped function
     password |-> Empty,        \* request.json.get("password")
     form |-> NoForm,           \* request.json of POST /users
     json |-> NoJson,           \* the "payload" of the handler's JSON response
     db_writes |-> <<>>,        \* the data-layer writes the handler called
     dec |-> NoDec,
     decoded |-> NoDecode,
     kind |-> "",               \* the error kind of the guard's rejection
     status |-> 0, message |-> "", body |-> "",
     new_access_token |-> NoToken]   \* the New-Access-Token response header

Init ==
    /\ now = 0
    /\ projectUsers \in [Projects -> SUBSET Users]
    /\ req = [r \in OneAtATime |-> Idle]
    /\ password_hash = [u \in Users |-> InitialHash]
    /\ issuer = NoIssue

\* The response leaves the guard: every pending handle_expired_access_token
\* wraps it with make_response and sets New-Access-Token to its own token,
\* the outermost one last.
Respond(q, status, message, body) ==
    [q EXCEPT !.pc = "done", !.status = status, !.message = message,
              !.body = body,
              !.new_access_token = IF q.frames = <<>> THEN NoToken ELSE q.frames[1]]

\* The guard rejects the request: a jsonify({"message": ...}) response, of
\* the given error kind.
Reject(q, kind, status, message) ==
    [Respond(q, status, message, "") EXCEPT !.kind = kind]

\* ------------------------------------------------------- JWTAuth, the guard
\* The branch JWTAuth.check_session_and_authorization.decorated_function takes.
JWT_select(route) ==
    IF route.root_required THEN "root"
    ELSE IF route.project_uuid # Absent THEN "project"
    ELSE IF route.user_uuid # Absent THEN "user"
    ELSE "none"

\* The branch's decision on the decoded payload.
JWT_policy(policy, payload, route, members) ==
    IF policy = "root" THEN JWT_authenticate_root(payload)
    ELSE IF policy = "project"
         THEN JWT_authorize_user_for_project(payload, route.project_uuid, members)
    ELSE JWT_authorize_for_user_specific_operation(payload, route.user_uuid, route.fname)

\* decorated_function(new_access_token, **kwargs) up to the call of f: q is
\* the request, utcnow the clock, members fetch_project_users(project_uuid).
JWT_decorated_function(q, utcnow, members) ==
    LET token == IF q.frames # <<>> THEN q.frames[Len(q.frames)]
                 ELSE JWT_get_token(q.header).token
        policy == JWT_select(q.route)
        decoded == decode_token(token, utcnow)
        d == JWT_policy(policy, token, q.route, members)
        q1 == [q EXCEPT !.decoded = Decoded(token, decoded, token.exp <= utcnow)]
        q2 == [q1 EXCEPT !.dec = Evaluated(policy, token, members, d.allow, q.calls)]
    IN  IF token = NoToken THEN Reject(q, "CredentialMissing", 401, "Token is missing")
        ELSE IF policy = "none" THEN [q EXCEPT !.pc = "call"]
        ELSE IF decoded = "ExpiredSignatureError"
             THEN [q1 EXCEPT !.pc = "refresh",
                             !.reexpired = @ \/ q.frames # <<>>]
        ELSE IF decoded = "InvalidTokenError"
             THEN Reject(q1, "CredentialMalformed", 401, "Invalid token.")
        ELSE IF d.allow THEN [q2 EXCEPT !.pc = "call"]
        ELSE Reject(q2, "AuthorizationDenied", d.status, d.message)

\* handle_expired_access_token as it would be if it re-entered the check
\* without root_required.
handle_expired_access_token_drops_root_required(q, utcnow) ==
    LET parsed_json_data == get_new_access_token(q.cookie, utcnow)
        q1 == [q EXCEPT !.refreshes = @ + 1]
    IN  IF parsed_json_data.access_token # NoToken
        THEN [q1 EXCEPT !.frames = Append(@, parsed_json_data.access_token),
                        !.route.root_required = FALSE,
                        !.pc = "guard"]
        ELSE Reject(q1, IF q.cookie = NoToken THEN "RefreshMissing"
                        ELSE "RefreshInvalidOrExpired",
                    403, parsed_json_data.message)

\* handle_expired_access_token(f, root_required, **kwargs)
handle_expired_access_token(q, utcnow) ==
    LET parsed_json_data == get_new_access_token(q.cookie, utcnow)
        q1 == [q EXCEPT !.refreshes = @ + 1]
    IN  IF parsed_json_data.access_token # NoToken
        THEN [q1 EXCEPT !.frames = Append(@, parsed_json_data.access_token),
                        !.pc = "guard"]
        ELSE Reject(q1, IF q.cookie = NoToken THEN "RefreshMissing"
                        ELSE "RefreshInvalidOrExpired",
                    403, parsed_json_data.message)

\* --------------------------------------------------- AuthManager, the guard
\* authenticate as it would be if it handed an expired token to the refresh
\* flow instead of answering 401.
AM_authenticate_refreshing(q, utcnow) ==
    LET got == AM_get_token(q.header)
        decoded == decode_token(got.token, utcnow)
        q1 == [q EXCEPT !.decoded = Decoded(got.token, decoded,
                                              got.token.exp <= utcnow)]
    IN  IF got.raised THEN Respond(q, 500, "Internal Server Error", "")
        ELSE IF got.token = NoToken
             THEN Reject(q, "CredentialMissing", 401, "Token is missing")
        ELSE IF decoded = "ExpiredSignatureError"
             THEN [q1 EXCEPT !.pc = "refresh"]
        ELSE IF decoded = "InvalidTokenError"
             THEN Reject(q1, "CredentialMalformed", 401, "Invalid token")
        ELSE [q1 EXCEPT !.payload = got.token,
                       !.pc = IF q.route.decorator = "none" THEN "call"
                              ELSE "authorize"]

\* AuthManager.authenticate.decorated_function up to the call of f.
AM_authenticate(q, utcnow) ==
    LET got == AM_get_token(q.header)
        decoded == decode_token(got.token, utcnow)
        q1 == [q EXCEPT !.decoded = Decoded(got.token, decoded,
                                              got.token.exp <= utcnow)]
    IN  IF got.raised THEN Respond(q, 500, "Internal Server Error", "")
        ELSE IF got.token = NoToken
             THEN Reject(q, "CredentialMissing", 401, "Token is missing")
        ELSE IF decoded = "ExpiredSignatureError"
             THEN Reject(q1, "CredentialExpired", 401, "Token expired")
        ELSE IF decoded = "InvalidTokenError"
             THEN Reject(q1, "CredentialMalformed", 401, "Invalid token")
        ELSE [q1 EXCEPT !.payload = got.token,
                       !.pc = IF q.route.decorator = "none" THEN "call"
                              ELSE "authorize"]

\* The decorator stacked under authenticate, on g.user_payload.
AM_policy(decorator, payload, route, members) ==
    IF decorator = "root" THEN AM_authorize_root(payload)
    ELSE IF decorator = "project"
         THEN AM_authorize_project_access(payload, route.project_uuid, members)
    ELSE AM_authorize_user(payload, route.user_uuid)

\* AM_authorize as it would be if g.user_payload were one slot shared by the
\* requests in flight instead of a slot of each request's own context.
AM_authorize_shared_payload(q, members) ==
    LET holder == CHOOSE r \in Reqs : req[r].payload # NoToken
        payload == req[holder].payload
        d == AM_policy(q.route.decorator, payload, q.route, members)
        q2 == [q EXCEPT !.dec = Evaluated(q.route.decorator, payload, members,
                                           d.allow, q.calls)]
    IN  IF d.allow THEN [q2 EXCEPT !.pc = "call"]
        ELSE Reject(q2, "AuthorizationDenied", d.status, d.message)

\* authorize_root / authorize_project_access / authorize_user's
\* decorated_function up to the call of f, on g.user_payload.
AM_authorize(q, members) ==
    LET d == AM_policy(q.route.decorator, q.payload, q.route, members)
        q2 == [q EXCEPT !.dec = Evaluated(q.route.decorator, q.payload, members,
                                           d.allow, q.calls)]
    IN  IF d.allow THEN [q2 EXCEPT !.pc = "call"]
        ELSE Reject(q2, "AuthorizationDenied", d.status, d.message)

\* ------------------------------------------------------ the wrapped function
\* What a call of the wrapped function ends with: it returns, or it raises
\* a jwt error.
Outcomes(q) ==
    {"ok"} \cup (IF q.raises < MaxRaise
                 THEN {"ExpiredSignatureError", "InvalidTokenError"} ELSE {})

\* return f(*args, **kwargs): inside the try of JWTAuth's decorated_function,
\* outside the try of AuthManager.authenticate.
call_f(q, outcome) ==
    LET q1 == [q EXCEPT !.calls = @ + 1,
                        !.raises = IF outcome = "ok" THEN @ ELSE @ + 1]
    IN  IF outcome = "ok"
        THEN Respond(q1, HandlerStatus(q.route.fname), "", q.route.fname)
        ELSE IF q.route.guard = "AuthManager"
             THEN Respond(q1, 500, "Internal Server Error", "")
        ELSE IF outcome = "ExpiredSignatureError" THEN [q1 EXCEPT !.pc = "refresh"]
        ELSE Reject(q1, "CredentialMalformed", 401, "Invalid token.")

\* ----------------------------------------------------------------- actions
\* A request arrives: Flask routes it and calls the decorated function.
Arrive(r, routes, headers, cookies) ==
    /\ req[r].pc = "idle"
    /\ \E route \in routes, h \in headers, c \in cookies :
          req' = [req EXCEPT ![r] = [Idle EXCEPT !.pc = "guard", !.route = route,
                                                 !.header = h, !.cookie = c,
                                                 !.t0 = now]]
    /\ UNCHANGED <<now, projectUsers, password_hash, issuer>>

Start(r) == Arrive(r, Routes, Headers(now), Cookies(now))

JWTGuard(r) ==
    /\ req[r].pc = "guard"
    /\ req[r].route.guard = "JWTAuth"
    /\ req' = [req EXCEPT ![r] = JWT_decorated_function(
                     req[r], now, fetch_project_users(req[r].route.project_uuid))]
    /\ UNCHANGED <<now, projectUsers, password_hash, issuer>>

JWTRefresh(r) ==
    /\ req[r].pc = "refresh"
    /\ req' = [req EXCEPT ![r] = handle_expired_access_token(req[r], now)]
    /\ UNCHANGED <<now, projectUsers, password_hash, issuer>>

AMAuthenticate(r) ==
    /\ req[r].pc = "guard"
    /\ req[r].route.guard = "AuthManager"
    /\ req' = [req EXCEPT ![r] = AM_authenticate(req[r], now)]
    /\ UNCHANGED <<now, projectUsers, password_hash, issuer>>

AMAuthorize(r) ==
    /\ req[r].pc = "authorize"
    /\ req' = [req EXCEPT ![r] = AM_authorize(
                     req[r], fetch_project_users(req[r].route.project_uuid))]
    /\ UNCHANGED <<now, projectUsers, password_hash, issuer>>

InvokeHandler(r) ==
    /\ req[r].pc = "call"
    /\ \E outcome \in Outcomes(req[r]) :
          req' = [req EXCEPT ![r] = call_f(req[r], outcome)]
    /\ UNCHANGED <<now, projectUsers, password_hash, issuer>>

\* The response is sent; the request context is discarded.
Finish(r) ==
    /\ req[r].pc = "done"
    /\ req' = [req EXCEPT ![r] = Idle]
    /\ UNCHANGED <<now, projectUsers, password_hash, issuer>>

\* Time passes.
Tick ==
    /\ now < MaxTicks * AccessTTL
    /\ now' = now + AccessTTL
    /\ UNCHANGED <<projectUsers, req, password_hash, issuer>>

\* The data layer assigns a user to a project, or removes one.
AddProjectUser(p, u) ==
    /\ u \notin projectUsers[p]
    /\ projectUsers' = [projectUsers EXCEPT ![p] = @ \cup {u}]
    /\ UNCHANGED <<now, req, password_hash, issuer>>

RemoveProjectUser(p, u) ==
    /\ u \in projectUsers[p]
    /\ projectUsers' = [projectUsers EXCEPT ![p] = @ \ {u}]
    /\ UNCHANGED <<now, req, password_hash, issuer>>

Next ==
    \/ \E r \in Reqs : Start(r)
    \/ \E r \in Reqs : JWTGuard(r)
    \/ \E r \in Reqs : JWTRefresh(r)
    \/ \E r \in Reqs : AMAuthenticate(r)
    \/ \E r \in Reqs : AMAuthorize(r)
    \/ \E r \in Reqs : InvokeHandler(r)
    \/ \E r \in Reqs : Finish(r)
    \/ Tick
    \/ \E p \in Projects, u \in Users : AddProjectUser(p, u)
    \/ \E p \in Projects, u \in Users : RemoveProjectUser(p, u)

Spec == Init /\ [][Next]_vars

\* ------------------------------------------------- two requests in flight
\* The server handles requests concurrently: two request contexts whose
\* steps interleave, within one validity period of the tokens presented.
TwoAtATime == {"r1", "r2"}

PairRoutes ==
    {Route("AuthManager", "root", FALSE, Absent, Absent, "get_users"),
     Route("AuthManager", "project", FALSE, "p1", Absent, "get_issues"),
     Route("AuthManager", "user", FALSE, Absent, "u2", "get_user_projects"),
     Route("JWTAuth", "", FALSE, "p1", Absent, "get_issues")}

PairHeaders(t) ==
    {Header(2, create_access_token("u1", TRUE, t)),
     Header(2, create_access_token("u2", FALSE, t))}

PairCookies(t) == {NoToken, create_refresh_token("u2", FALSE, t)}

InitPair ==
    /\ now = 0
    /\ projectUsers \in [Projects -> SUBSET Users]
    /\ req = [r \in TwoAtATime |-> Idle]
    /\ password_hash = [u \in Users |-> InitialHash]
    /\ issuer = NoIssue

StartPair(r) == Arrive(r, PairRoutes, PairHeaders(now), PairCookies(now))

NextPair ==
    \/ \E r \in Reqs : StartPair(r)
    \/ \E r \in Reqs : JWTGuard(r)
    \/ \E r \in Reqs : JWTRefresh(r)
    \/ \E r \in Reqs : AMAuthenticate(r)
    \/ \E r \in Reqs : AMAuthorize(r)
    \/ \E r \in Reqs : InvokeHandler(r)
    \/ \E r \in Reqs : Finish(r)
    \/ \E p \in Projects, u \in Users : AddProjectUser(p, u)
    \/ \E p \in Projects, u \in Users : RemoveProjectUser(p, u)

SpecPair == InitPair /\ [][NextPair]_vars

\* ------------------------------------- the users blueprint, with its handler
\* PATCH /api/users/<user_uuid> as wired in app/routes/users.py:
\* authenticate, authorize_user, then the body of update_user_password on the
\* users table.  FormerUser has a token but no row any more.
FormerUser == "u9"

UsersRoutes ==
    {Route("AuthManager", "user", FALSE, Absent, u, "update_user_password") :
        u \in Users \cup {FormerUser}}
    \cup {Route("AuthManager", "root", FALSE, Absent, Absent, "create_user")}

\* The JSON bodies of POST /users: complete and valid, none, a field missing,
\* passwords that differ, an invalid email.
Forms ==
    {Form("Jane", "Smith", "jane@smith.com", "pw", "pw"),
     NoForm,
     Form("Jane", "Smith", Empty, "pw", "pw"),
     Form("Jane", "Smith", "jane@smith.com", "pw", "other"),
     Form("Jane", "Smith", "jane", "pw", "pw")}

\* The body of create_user(), with the salt gensalt() draws and the uuid
\* generate_uuid() returns.
create_user(q, hashes, salt, uuid) ==
    LET data == q.form
        q1 == [q EXCEPT !.calls = @ + 1]
        bad(message) == [q |-> Respond(q1, 400, message, q.route.fname),
                         hashes |-> hashes]
        hashed == Hash(data.password, salt)
        user_info == [uuid |-> uuid, first_name |-> data.first_name,
                      last_name |-> data.last_name]
        q2 == [q1 EXCEPT !.db_writes = Append(@, <<"add_user", uuid>>),
                         !.json = user_info]
    IN  IF data = NoForm THEN bad("Invalid request")
        ELSE IF \E k \in DOMAIN data : ~Truthy(data[k]) THEN bad("Missing input data")
        ELSE IF data.password # data.confirmed_password
             THEN bad("Passwords do not match")
        ELSE IF ~is_valid_email(data.email) THEN bad("Invalid email format")
        ELSE [q |-> Respond(q2, 201, "", q.route.fname),
              hashes |-> add_user(hashes, uuid, hashed)]

UsersHeaders(t) ==
    {Header(0, NoToken), Header(2, create_access_token("u1", TRUE, t)),
     Header(2, create_access_token("u2", FALSE, t)),
     Header(2, create_access_token(FormerUser, FALSE, t)),
     Header(2, Token("u2", FALSE, t, ServerKey))}

Passwords == {Empty, "new"}

\* The body of update_user_password(user_uuid), with the salt gensalt() draws.
update_user_password(q, hashes, salt) ==
    LET new_password == q.password
        hash == Hash(new_password, salt)
        updated == update_password(hashes, q.route.user_uuid, hash)
        q1 == [q EXCEPT !.calls = @ + 1]
        q2 == [q1 EXCEPT !.db_writes = Append(@, <<"update_password", q.route.user_uuid>>)]
    IN  IF ~Truthy(new_password)
        THEN [q |-> Respond(q1, 400, "Missing password", q.route.fname),
              hashes |-> hashes]
        ELSE IF updated.success
             THEN [q |-> Respond(q2, 204, "", q.route.fname), hashes |-> updated.hashes]
        ELSE [q |-> Respond(q2, 404, "User not found", q.route.fname),
              hashes |-> updated.hashes]

InitUsers == Init

StartUsers(r) ==
    /\ req[r].pc = "idle"
    /\ \E route \in UsersRoutes, h \in UsersHeaders(now),
          pw \in Passwords, form \in Forms :
          /\ route.fname = "create_user" => pw = Empty
          /\ route.fname # "create_user" => form = NoForm
          /\ req' = [req EXCEPT ![r] = [Idle EXCEPT !.pc = "guard", !.route = route,
                                                    !.header = h, !.password = pw,
                                                    !.form = form, !.t0 = now]]
    /\ UNCHANGED <<now, projectUsers, password_hash, issuer>>

UpdateUserPassword(r) ==
    /\ req[r].pc = "call"
    /\ req[r].route.fname = "update_user_password"
    /\ \E salt \in Salts :
          LET result == update_user_password(req[r], password_hash, salt) IN
          /\ req' = [req EXCEPT ![r] = result.q]
          /\ password_hash' = result.hashes
    /\ UNCHANGED <<now, projectUsers, issuer>>

CreateUser(r) ==
    /\ req[r].pc = "call"
    /\ req[r].route.fname = "create_user"
    /\ \E salt \in Salts, uuid \in generate_uuid(password_hash) :
          LET result == create_user(req[r], password_hash, salt, uuid) IN
          /\ req' = [req EXCEPT ![r] = result.q]
          /\ password_hash' = result.hashes
    /\ UNCHANGED <<now, projectUsers, issuer>>

NextUsers ==
    \/ \E r \in Reqs : StartUsers(r)
    \/ \E r \in Reqs : CreateUser(r)
    \/ \E r \in Reqs : AMAuthenticate(r)
    \/ \E r \in Reqs : AMAuthorize(r)
    \/ \E r \in Reqs : UpdateUserPassword(r)
    \/ \E r \in Reqs : Finish(r)

SpecUsers == InitUsers /\ [][NextUsers]_vars

\* ------------------------------------------------- TokenManager on its own
\* create_access_token / create_refresh_token followed by decode_token.
TokenKinds == {"access", "refresh"}

IssueToken ==
    /\ issuer.pc = "idle"
    /\ \E kind \in TokenKinds, u \in Users, b \in BOOLEAN :
          LET utcnow == issuer.clock
              token == IF kind = "access"
                       THEN create_access_token(u, b, timegm(utcnow))
                       ELSE create_refresh_token(u, b, timegm(utcnow))
          IN  issuer' = Issue("issued", issuer.clock, kind, u, b, utcnow, token,
                              "", Claims(NoToken))
    /\ UNCHANGED <<now, projectUsers, req, password_hash>>

DecodeToken ==
    /\ issuer.pc = "issued"
    /\ LET result == decode_token(issuer.token, timegm(issuer.clock)) IN
       issuer' = [issuer EXCEPT !.pc = "decoded", !.result = result,
                                !.claims = IF result = "ok" THEN Claims(issuer.token)
                                           ELSE Claims(NoToken)]
    /\ UNCHANGED <<now, projectUsers, req, password_hash>>

DropToken ==
    /\ issuer.pc = "decoded"
    /\ issuer' = IssuerIdle(issuer.clock)
    /\ UNCHANGED <<now, projectUsers, req, password_hash>>

\* The wall clock advances by half a second.
ClockTick ==
    /\ issuer.clock.second < MaxClock
    /\ issuer' = [issuer EXCEPT !.clock =
                     IF @.microsecond = 0 THEN Datetime(@.second, HalfSecond)
                     ELSE Datetime(@.second + 1, 0)]
    /\ UNCHANGED <<now, projectUsers, req, password_hash>>

InitIssuer ==
    /\ now = 0
    /\ projectUsers = [p \in Projects |-> {}]
    /\ req = [r \in OneAtATime |-> Idle]
    /\ password_hash = [u \in Users |-> InitialHash]
    /\ issuer = NoIssue

NextIssuer == IssueToken \/ DecodeToken \/ DropToken \/ ClockTick

SpecIssuer == InitIssuer /\ [][NextIssuer]_vars

\* ================================================================== claims
\* Vocabulary of the claims, over one request q.
IsJWT(q) == q.route.guard = "JWTAuth"
IsAM(q) == q.route.guard = "AuthManager"
IsDone(q) == q.pc = "done"
\* The request presented a bearer token (scheme and a non-empty token).
HasBearer(q) == q.header.parts = 2 /\ q.header.token # NoToken
\* ... which the server issued and whose expiry had passed on arrival.
BearerExpired(q) ==
    HasBearer(q) /\ q.header.token.key = ServerKey /\ q.header.token.exp <= q.t0
\* The refresh_token cookie decodes on arrival (and, its expiry being days
\* away, for the rest of the request).
RefreshValid(q) == q.cookie # NoToken /\ decode_token(q.cookie, q.t0) = "ok"
\* The last get_new_access_token of the request returned no access token.
RefreshFailed(q) == q.refreshes = Len(q.frames) + 1
\* The response is the wrapped function's own result.
HandlerResponse(q) ==
    /\ q.status = HandlerStatus(q.route.fname)
    /\ q.body = q.route.fname
\* The policy the operation selects.
Selected(q) == IF IsJWT(q) THEN JWT_select(q.route) ELSE q.route.decorator

\* C1: in the refreshing guard a request performs at most one refresh
\* attempt: when the access token minted by the refresh is itself reported
\* expired on decode, there is no second refresh and the request ends with
\* an error response.  (Stated for requests whose wrapped function raised
\* nothing, so that every refresh is caused by a decode.)
C1_AtMostOneRefresh ==
    \A r \in Reqs :
        LET q == req[r] IN
        (IsJWT(q) /\ q.raises = 0) =>
            /\ q.refreshes <= 1
            /\ (q.reexpired /\ IsDone(q)) => q.status >= 400

\* C2: a request whose bearer token is missing or fails signature
\* verification is answered 401 and its handler is never invoked, on every
\* AuthManager route and for every function wrapped by JWTAuth.
Unauthenticated(q) ==
    \/ q.header.parts = 0
    \/ q.header.parts = 2 /\ q.header.token = NoToken
    \/ q.header.parts = 2 /\ q.header.token.key # ServerKey
C2_AuthenticatedIsPrecondition ==
    \A r \in Reqs :
        LET q == req[r] IN
        (q.pc # "idle" /\ Unauthenticated(q)) =>
            /\ q.calls = 0
            /\ IsDone(q) => q.status = 401

\* C3: no handler is invoked for a request whose bearer token's expiry has
\* passed, unless a refresh in that request minted an access token that then
\* decoded successfully.
MintedDecoded(q) ==
    /\ q.dec.policy # ""
    /\ \E i \in 1..Len(q.frames) : q.dec.token = q.frames[i]
C3_NeverAcceptedAfterExpiry ==
    \A r \in Reqs :
        LET q == req[r] IN
        (HasBearer(q) /\ q.header.token.exp <= q.t0 /\ q.calls > 0)
            => MintedDecoded(q)

\* C4: in the refreshing guard, a request with an expired access token, a
\* valid refresh token and a subject that satisfies the selected policy
\* succeeds: the refreshed token is decoded, the policy is evaluated on it,
\* the handler is invoked, the response is the handler's and carries the
\* minted token in New-Access-Token.  (Stated for requests whose minted token
\* is not reported expired and whose wrapped function raises nothing; the
\* subject is the refresh token's.)
SubjectSatisfies(q) ==
    LET policy == JWT_select(q.route) IN
    IF policy = "root" THEN q.cookie.is_root
    ELSE IF policy = "project"
         THEN q.cookie.is_root
              \/ (q.dec.policy = "project" /\ q.cookie.user_uuid \in q.dec.members)
    ELSE IF policy = "user" THEN q.cookie.user_uuid = q.route.user_uuid
    ELSE TRUE
C4_RefreshThenSucceed ==
    \A r \in Reqs :
        LET q == req[r] IN
        (/\ IsJWT(q) /\ IsDone(q)
         /\ BearerExpired(q) /\ RefreshValid(q) /\ SubjectSatisfies(q)
         /\ ~q.reexpired /\ q.raises = 0)
        => /\ q.refreshes = 1
           /\ q.calls = 1
           /\ HandlerResponse(q)
           /\ q.new_access_token # NoToken
           /\ q.new_access_token = q.frames[1]

\* C5: in the refreshing guard, a request whose access token is expired and
\* whose refresh token is expired or invalid fails with 403, and its handler
\* is never invoked.
RefreshExpiredOrInvalid(q) ==
    q.cookie # NoToken /\ decode_token(q.cookie, q.t0) # "ok"
C5_RefreshExpiredMeansRelogin ==
    \A r \in Reqs :
        LET q == req[r] IN
        (IsJWT(q) /\ BearerExpired(q) /\ RefreshExpiredOrInvalid(q)) =>
            /\ q.calls = 0
            /\ IsDone(q) => q.status = 403

\* C6: when the access token is expired and the refresh fails, the guard
\* rejects with the status of the refresh error: 401 when no refresh token
\* was presented, 403 when it is invalid or expired.
C6_RefreshErrorStatus ==
    \A r \in Reqs :
        LET q == req[r] IN
        (IsJWT(q) /\ IsDone(q) /\ BearerExpired(q) /\ RefreshFailed(q)
         /\ q.refreshes = 1) =>
            q.status = IF q.cookie = NoToken THEN 401 ELSE 403

\* C7: RootOnly allows a request if and only if the decoded token's is_root
\* claim is true, whatever the subject and the path parameters: when it is
\* true the handler is invoked, otherwise the guard answers 403 and the
\* handler is not invoked (AuthManager.authorize_root, JWTAuth._authenticate_root).
C7_RootOnly ==
    \A r \in Reqs :
        LET q == req[r] IN
        /\ (Selected(q) = "root" /\ q.dec.policy # "") => q.dec.policy = "root"
        /\ (Selected(q) = "root" /\ q.pc = "call") =>
               (q.dec.policy = "root" /\ q.dec.allow)
        /\ q.dec.policy = "root" =>
               /\ q.dec.allow <=> q.dec.token.is_root
               /\ q.dec.allow => (q.pc = "call" \/ q.calls > q.dec.calls)
               /\ ~q.dec.allow =>
                      (IsDone(q) /\ q.status = 403 /\ q.calls = q.dec.calls)

\* A RootOnly decision on a token whose is_root claim is true, for a subject
\* other than the users table's root, with a path parameter: the handler ran.
C7_Witness ==
    \E r \in Reqs :
        LET q == req[r] IN
        /\ IsDone(q) /\ q.dec.policy = "root" /\ q.dec.allow
        /\ q.dec.token.is_root /\ q.dec.token.user_uuid = "u2"
        /\ q.route.user_uuid = "u2"
        /\ q.calls = 1 /\ HandlerResponse(q)

\* C8: ProjectMember allows a non-root subject if and only if the subject is
\* in the membership set of the project named by project_uuid, and allows
\* every root subject; every other request is denied with 403 and its
\* handler is not invoked, including when project_uuid is empty
\* (AuthManager.authorize_project_access, JWTAuth.authorize_user_for_project).
C8_ProjectMember ==
    \A r \in Reqs :
        LET q == req[r] IN
        q.dec.policy = "project" =>
            /\ q.dec.allow <=>
                  (q.dec.token.is_root \/ q.dec.token.user_uuid \in q.dec.members)
            /\ ~q.dec.allow =>
                  (IsDone(q) /\ q.status = 403 /\ q.calls = q.dec.calls)

\* C9 as stated: SelfOnly denies with 403, without invoking the handler,
\* every request of a subject whose token's is_root is false and whose path
\* user_uuid differs from the token's subject, whatever the operation.
SelfOnlyDenied(q) ==
    /\ ~q.dec.allow
    /\ IsDone(q) /\ q.status = 403 /\ q.calls = q.dec.calls
C10_RootListsAnyUsersProjects ==
    \A r \in Reqs :
        LET q == req[r] IN
        (/\ IsAM(q) /\ IsDone(q)
         /\ q.route.decorator = "user" /\ q.route.fname = "get_user_projects"
         /\ q.route.user_uuid \in Users
         /\ q.payload # NoToken
         /\ q.payload.is_root /\ get_user_root_info(q.payload.user_uuid)
         /\ q.raises = 0)
        => (q.calls = 1 /\ HandlerResponse(q))

\* C12 (as stated): every token whose expiry has passed fails decode_token
\* with Expired and never with Malformed, including a token whose signature
\* does not verify under the server's secret.
C12_ExpiredNeverMalformedAnyToken ==
    \A r \in Reqs :
        LET q == req[r] IN
        (q.decoded.token # NoToken /\ q.decoded.passed)
            => q.decoded.result = "ExpiredSignatureError"

\* C12 (amended): every token signed with the server's secret whose expiry
\* has passed fails decode_token with Expired and never with Malformed; a
\* token past its expiry whose signature does not verify fails with Malformed.
C12_ExpiredNeverMalformed ==
    \A r \in Reqs :
        LET q == req[r] IN
        (q.decoded.token # NoToken /\ q.decoded.passed)
            => q.decoded.result = IF q.decoded.token.key = ServerKey
                                  THEN "ExpiredSignatureError"
                                  ELSE "InvalidTokenError"

\* An AuthManager request was answered 'Token expired' for a token of the
\* server decoded at the very second its exp names.
C12_Witness ==
    \E r \in Reqs :
        LET q == req[r] IN
        /\ IsDone(q) /\ IsAM(q)
        /\ q.decoded.token.key = ServerKey
        /\ q.decoded.passed
        /\ q.decoded.token.exp = now
        /\ q.message = "Token expired"

\* C13: a token signed with a secret different from the server's fails
\* decode_token with Malformed whether or not its expiry has passed: the
\* request is answered 401, never triggers the refresh flow and never
\* reaches a handler.
C13_ForeignSecretIsMalformed ==
    \A r \in Reqs :
        LET q == req[r] IN
        (HasBearer(q) /\ q.header.token.key # ServerKey)
            => /\ q.decoded.result \in {"", "InvalidTokenError"}
               /\ q.refreshes = 0
               /\ q.calls = 0
               /\ q.pc \notin {"call", "refresh"}
               /\ IsDone(q) => (q.status = 401 /\ q.kind = "CredentialMalformed")

\* The access tokens a request's refreshes minted.
Minted(q) == {q.frames[i] : i \in 1..Len(q.frames)}

\* C15: a successful refresh mints an access token with the subject and the
\* root flag of the refresh token it was minted from, signed by the server
\* and decodable when minted, so the policy evaluated after a refresh is
\* evaluated for the refresh token's subject.
C15_RefreshKeepsSubject ==
    \A r \in Reqs :
        LET q == req[r] IN
        /\ \A t \in Minted(q) :
              /\ t.user_uuid = q.cookie.user_uuid
              /\ t.is_root = q.cookie.is_root
              /\ t.key = ServerKey
              /\ t.exp > q.t0
        /\ (q.frames # <<>> /\ q.dec.policy # "" /\ q.decoded.token \in Minted(q)
              /\ q.decoded.result = "ok")
              => /\ q.dec.token.user_uuid = q.cookie.user_uuid
                 /\ q.dec.token.is_root = q.cookie.is_root

\* A request arrived with an expired token of the non-root u2 and the
\* refresh token of the root u1, and the handler was allowed on the claims of
\* the minted token.
C15_Witness ==
    \E r \in Reqs :
        LET q == req[r] IN
        /\ IsDone(q) /\ HandlerResponse(q)
        /\ BearerExpired(q)
        /\ q.header.token.user_uuid = "u2" /\ ~q.header.token.is_root
        /\ q.cookie.user_uuid = "u1" /\ q.cookie.is_root
        /\ q.frames # <<>>
        /\ q.dec.token = q.frames[1]
        /\ q.dec.allow
        /\ q.new_access_token.is_root

\* C17: a token issued by create_refresh_token that is presented as the
\* bearer access credential is never accepted by the guard and never causes
\* a handler invocation.
C17_RefreshTokenNeverAccepted ==
    \A r \in Reqs :
        LET q == req[r]
            t == q.header.token
        IN  (HasBearer(q) /\ t = create_refresh_token(t.user_uuid, t.is_root, q.t0))
                => (q.calls = 0 /\ q.pc # "call" /\ ~q.dec.allow)

\* The Authorization header is absent or does not split into a scheme and
\* a token.
NoCredential(q) == q.header.parts # 2 \/ q.header.token = NoToken

\* C18: when the Authorization header is absent or does not split into a
\* scheme and a token, the guard (AuthManager or JWTAuth) answers 401 'Token
\* is missing', raises no exception and does not invoke the handler.
C18_NoCredentialIsMissing ==
    \A r \in Reqs :
        LET q == req[r] IN
        (q.pc # "idle" /\ NoCredential(q))
            => /\ q.calls = 0
               /\ q.pc \in {"guard", "done"}
               /\ IsDone(q) => (q.status = 401 /\ q.message = "Token is missing")

\* The error kind a client reads off a response's status and message.
Classify(status, message) ==
    IF status = 401 /\ message = "Token is missing" THEN "CredentialMissing"
    ELSE IF status = 401 /\ message \in {"Invalid token", "Invalid token."}
         THEN "CredentialMalformed"
    ELSE IF status = 403 /\ message = "No refresh token found" THEN "RefreshMissing"
    ELSE IF status = 403 /\ message \in {"Token expired", "Invalid token"}
         THEN "RefreshInvalidOrExpired"
    ELSE IF status = 403 /\ message \in {"Unauthorized", "Unathorized",
                                          "Unauthorized for this project"}
         THEN "AuthorizationDenied"
    ELSE "other"

RejectionKinds ==
    {"CredentialMissing", "CredentialMalformed", "RefreshMissing",
     "RefreshInvalidOrExpired", "AuthorizationDenied"}

\* C20: the status/message pair of a rejection identifies its error kind
\* (two rejections of different kinds among CredentialMissing,
\* CredentialMalformed, RefreshMissing, RefreshInvalidOrExpired and
\* AuthorizationDenied never carry the same pair), and a request whose
\* decode failed as invalid, whose refresh failed or whose policy denied
\* does not end with the handler's response.
C20_RejectionsDistinguishable ==
    \A r \in Reqs :
        LET q == req[r] IN
        /\ (IsDone(q) /\ q.kind \in RejectionKinds)
              => (Classify(q.status, q.message) = q.kind /\ ~HandlerResponse(q))
        /\ (q.decoded.result = "InvalidTokenError"
              \/ RefreshFailed(q)
              \/ (q.dec.policy # "" /\ ~q.dec.allow))
              => (IsDone(q) /\ q.kind \in RejectionKinds /\ ~HandlerResponse(q))

\* A refresh that failed on a refresh token signed with another secret was
\* answered 403 'Invalid token': the message AuthManager gives an undecodable
\* bearer token with 401.
C20_Witness ==
    \E r \in Reqs :
        LET q == req[r] IN
        /\ IsDone(q) /\ IsJWT(q)
        /\ q.kind = "RefreshInvalidOrExpired"
        /\ q.status = 403 /\ q.message = "Invalid token"

AloneResponses(q, members) ==
    LET fresh == [Idle EXCEPT !.pc = "guard", !.route = q.route,
                              !.header = q.header, !.cookie = q.cookie, !.t0 = q.t0]
        a1 == AM_authenticate(fresh, q.t0)
        a2 == IF a1.pc = "authorize" THEN AM_authorize(a1, members) ELSE a1
        ends == IF a2.pc = "call"
                THEN {call_f(a2, o) : o \in {"ok", "ExpiredSignatureError",
                                              "InvalidTokenError"}}
                ELSE {a2}
    IN  {<<e.status, e.message, e.body>> : e \in ends}

\* C19: requests are handled independently: in every interleaving of two
\* requests the claims authorize_root, authorize_project_access and
\* authorize_user read are the ones authenticate decoded from that same
\* request's token, and a request ends as it does when it runs alone against
\* the membership set its check read.
C19_RequestsIndependent ==
    \A r \in Reqs :
        LET q == req[r] IN
        IsAM(q) =>
            /\ q.payload \in {NoToken, q.header.token}
            /\ q.dec.policy # "" => (q.dec.token = q.header.token
                                      /\ q.payload = q.header.token)
            /\ IsDone(q) => <<q.status, q.message, q.body>>
                               \in AloneResponses(q, q.dec.members)

\* Two AuthManager requests with different tokens were in flight together,
\* and ended differently:
\* the root one with the handler's response, the other with 403.
C19_Witness ==
    \E a, b \in Reqs :
        /\ a # b
        /\ IsAM(req[a]) /\ IsAM(req[b])
        /\ req[a].route = req[b].route
        /\ req[a].route.decorator = "root"
        /\ req[a].header.token.is_root /\ ~req[b].header.token.is_root
        /\ IsDone(req[a]) /\ HandlerResponse(req[a])
        /\ IsDone(req[b]) /\ req[b].status = 403

\* C11: for the password update (PATCH /users/<user_uuid>), a request whose
\* token subject differs from the path user_uuid is denied with 403 whether
\* or not the subject is root; update_password is not called for it and no
\* step of it changes any user's stored password hash.
C11_MismatchedPasswordUpdateDenied ==
    [][\A r \in Reqs :
         LET q == req'[r] IN
         (/\ q.route.fname = "update_user_password"
          /\ q.payload # NoToken
          /\ q.payload.user_uuid # q.route.user_uuid)
            => /\ q.calls = 0
               /\ q.db_writes = <<>>
               /\ q.pc \in {"authorize", "done"}
               /\ IsDone(q) => (q.status = 403 /\ q.kind = "AuthorizationDenied")
               /\ q # req[r] => password_hash' = password_hash]_vars

\* A root subject asked to set the password of another user, with a
\* non-empty password, and was answered 403.
C11_Witness ==
    \E r \in Reqs :
        LET q == req[r] IN
        /\ IsDone(q)
        /\ q.route.fname = "update_user_password"
        /\ q.payload.is_root
        /\ q.payload.user_uuid = "u1" /\ q.route.user_uuid = "u2"
        /\ Truthy(q.password)
        /\ q.status = 403
        /\ q.db_writes = <<>>

\* The TTL of a token of the given kind, in seconds.
TokenTTL(kind) == IF kind = "access" THEN AccessTTL ELSE RefreshTTL

JWTAllowed(q) == IsJWT(q) /\ IsDone(q) /\ q.kind = ""

\* C23: when JWTAuth allows a request the response status and body are the
\* handler's result; the New-Access-Token header is present exactly when a
\* refresh succeeded during the request, and its value is then the access
\* token the final authorization decision was made on (the last one minted).
C23_ResponseUnchangedPlusHeader ==
    \A r \in Reqs :
        LET q == req[r] IN
        JWTAllowed(q) =>
            /\ HandlerResponse(q)
            /\ q.new_access_token # NoToken <=> q.frames # <<>>
            /\ q.frames # <<>> =>
                  /\ q.new_access_token = q.frames[Len(q.frames)]
                  /\ Selected(q) # "none" => q.new_access_token = q.dec.token

\* C24: a request through JWTAuth reaches its terminal outcome after a
\* number of steps that no behaviour of the clock can increase: it refreshes
\* once for an expired bearer token and once more each time the handler
\* raises an expired-token error, and a minted token that is already expired
\* when decoded does not start another round.
C24_RetriesBoundedWhateverTheClock ==
    \A r \in Reqs :
        LET q == req[r] IN
        IsJWT(q) => /\ q.refreshes <= q.raises + 1
                    /\ Len(q.frames) <= q.raises + 1

\* C25: a refresh leaves the operation as it arrived: the step of
\* handle_expired_access_token changes neither root_required nor the path
\* parameters nor the wrapped function, and the check re-entered after it
\* evaluates the policy these select, never a weaker one.
C25_RefreshKeepsPolicy ==
    [][\A r \in Reqs :
         LET q == req[r]
             q2 == req'[r]
         IN  /\ (q.pc = "refresh" /\ q2 # q) =>
                   (q2.route = q.route /\ q2.pc \in {"guard", "done"})
             /\ (IsJWT(q) /\ q.pc = "guard" /\ q2.dec # q.dec) =>
                   (q2.route = q.route /\ q2.dec.policy = JWT_select(q.route))]_vars

\* A root-only operation was re-checked after a refresh: the minted token of
\* a non-root subject was denied by the root policy.
C25_Witness ==
    \E r \in Reqs :
        LET q == req[r] IN
        /\ IsJWT(q) /\ IsDone(q)
        /\ q.route.root_required
        /\ q.frames # <<>>
        /\ q.dec.policy = "root" /\ q.dec.token = q.frames[1]
        /\ ~q.dec.allow /\ q.status = 403

\* C26: the protected handler is invoked at most once per request on every
\* path through the guard, including the refresh-and-retry path of JWTAuth
\* and a handler that raises an expired-token or invalid-token error.
C26_HandlerAtMostOnce ==
    \A r \in Reqs : req[r].calls <= 1

\* C27: refresh_access_token mints an access token only when the
\* refresh_token cookie holds a token issued by create_refresh_token; an
\* access token in the cookie mints nothing.
C27_OnlyRefreshTokensMint ==
    \A r \in Reqs :
        LET q == req[r]
            c == q.cookie
        IN  Minted(q) # {} => c = create_refresh_token(c.user_uuid, c.is_root, q.t0)

\* C28: on a decoded token, the same membership set and the same path
\* parameters, AuthManager's decorator and JWTAuth's branch for RootOnly,
\* ProjectMember and SelfOnly make the same decision with the same status.
C28_GuardsEquivalent ==
    \A r \in Reqs :
        LET q == req[r]
            a == AM_policy(q.dec.policy, q.dec.token, q.route, q.dec.members)
            j == JWT_policy(q.dec.policy, q.dec.token, q.route, q.dec.members)
        IN  q.dec.policy \in {"root", "project", "user"}
                => (a.allow = j.allow /\ a.status = j.status)

\* JWTAuth let a subject through SelfOnly for another user's projects.
Bypassed(q) ==
    /\ IsJWT(q)
    /\ q.dec.policy = "user" /\ q.dec.allow
    /\ q.route.fname = "get_user_projects"
    /\ q.dec.token.user_uuid # q.route.user_uuid

\* C29 (as stated): the guard has a single notion of root, the token's
\* is_root claim: whenever JWTAuth lets a subject bypass SelfOnly for
\* get_user_projects, the subject's token carries is_root = true.
C29_BypassOnlyForRootClaim ==
    \A r \in Reqs : Bypassed(req[r]) => req[r].dec.token.is_root

\* C29 (amended): the guard has two sources of root status: RootOnly and
\* the root branch of ProjectMember read the token's is_root claim, the
\* SelfOnly bypass for get_user_projects asks the users table; whenever
\* JWTAuth lets a subject bypass SelfOnly, the users table marks the subject
\* root, whatever the token's is_root claim.
C29_BypassOnlyForRootInTable ==
    \A r \in Reqs :
        LET q == req[r] IN
        /\ Bypassed(q) => get_user_root_info(q.dec.token.user_uuid)
        /\ (IsJWT(q) /\ q.dec.policy = "root" /\ q.dec.allow)
              => q.dec.token.is_root
        /\ (IsJWT(q) /\ q.dec.policy = "project" /\ q.dec.allow
              /\ Truthy(q.route.project_uuid)
              /\ q.dec.token.user_uuid \notin q.dec.members)
              => q.dec.token.is_root

\* A subject the users table marks root listed another user's projects with
\* a token whose is_root claim is false.
C29_Witness ==
    \E r \in Reqs :
        LET q == req[r] IN
        /\ Bypassed(q) /\ IsDone(q) /\ HandlerResponse(q)
        /\ ~q.dec.token.is_root
        /\ get_user_root_info(q.dec.token.user_uuid)

\* The token AuthManager takes from the header was issued by the server and
\* its expiry had passed on arrival.
AMTokenExpired(q) ==
    /\ IsAM(q) /\ q.pc # "idle"
    /\ ~AM_get_token(q.header).raised
    /\ AM_get_token(q.header).token # NoToken
    /\ AM_get_token(q.header).token.key = ServerKey
    /\ AM_get_token(q.header).token.exp <= q.t0

\* C30: AuthManager.authenticate never refreshes: a request whose access
\* token is expired is answered 401 'Token expired'; refresh_access_token is
\* not called, the handler is not invoked and the response carries no new
\* token, whatever refresh token the request carries.
C30_AuthManagerNeverRefreshes ==
    \A r \in Reqs :
        LET q == req[r] IN
        /\ IsAM(q) => (q.refreshes = 0 /\ q.frames = <<>>
                         /\ q.new_access_token = NoToken)
        /\ AMTokenExpired(q) =>
              /\ q.calls = 0
              /\ q.pc \in {"guard", "done"}
              /\ IsDone(q) => (q.status = 401 /\ q.message = "Token expired")

\* An AuthManager request with an expired token and a valid refresh token
\* was answered 401 'Token expired'.
C30_Witness ==
    \E r \in Reqs :
        LET q == req[r] IN
        /\ AMTokenExpired(q) /\ IsDone(q)
        /\ RefreshValid(q)
        /\ q.status = 401 /\ q.message = "Token expired"

\* C21: when a root subject creates a user with complete, valid input,
\* create_user adds exactly one user and answers 201 with a payload that
\* contains the new user's email and is_root = false.
C21_CreateUserAnswersNewUser ==
    \A r \in Reqs :
        LET q == req[r] IN
        (/\ IsDone(q) /\ q.route.fname = "create_user"
         /\ q.payload.is_root
         /\ \A k \in DOMAIN q.form : Truthy(q.form[k])
         /\ q.form.password = q.form.confirmed_password
         /\ is_valid_email(q.form.email))
            => /\ q.status = 201
               /\ Len(q.db_writes) = 1
               /\ q.db_writes[1][1] = "add_user"
               /\ q.db_writes[1][2] \in DOMAIN password_hash
               /\ "email" \in DOMAIN q.json
               /\ q.json["email"] = q.form.email
               /\ "is_root" \in DOMAIN q.json
               /\ q.json["is_root"] = FALSE

\* A non-root subject with a valid token asks for the password update of its
\* own user_uuid with a non-empty password.
OwnPasswordUpdate(q) ==
    /\ q.route.fname = "update_user_password"
    /\ q.payload # NoToken
    /\ ~q.payload.is_root
    /\ q.payload.user_uuid = q.route.user_uuid
    /\ Truthy(q.password)

\* C22 (as stated): for such a request SelfOnly allows it, update_password
\* is called for exactly that user_uuid, the response is 204 and the stored
\* password hash of that user is replaced while every other user's is
\* unchanged.
C22_OwnPasswordUpdateReplacesHash ==
    [][\A r \in Reqs :
         LET q == req[r]
             q2 == req'[r]
             u == q.route.user_uuid
         IN  /\ (OwnPasswordUpdate(q) /\ q.pc = "authorize" /\ q2 # q)
                    => q2.pc = "call"
             /\ (OwnPasswordUpdate(q) /\ q.pc = "call" /\ q2 # q)
                    => /\ q2.status = 204
                       /\ q2.db_writes = <<<<"update_password", u>>>>
                       /\ u \in DOMAIN password_hash
                       /\ password_hash'[u] \in {Hash(q.password, s) : s \in Salts}
                       /\ \A o \in DOMAIN password_hash \ {u} :
                             password_hash'[o] = password_hash[o]]_vars

\* C22 (amended): for such a request SelfOnly allows it and update_password
\* is called for exactly that user_uuid; when the users table has a row for
\* it the response is 204 and that row's password hash is replaced, otherwise
\* the response is 404; every other user's hash is unchanged.
C22_OwnPasswordUpdate ==
    [][\A r \in Reqs :
         LET q == req[r]
             q2 == req'[r]
             u == q.route.user_uuid
         IN  /\ (OwnPasswordUpdate(q) /\ q.pc = "authorize" /\ q2 # q)
                    => q2.pc = "call"
             /\ (OwnPasswordUpdate(q) /\ q.pc = "call" /\ q2 # q)
                    => /\ q2.db_writes = <<<<"update_password", u>>>>
                       /\ DOMAIN password_hash' = DOMAIN password_hash
                       /\ \A o \in DOMAIN password_hash \ {u} :
                             password_hash'[o] = password_hash[o]
                       /\ IF u \in DOMAIN password_hash
                          THEN /\ q2.status = 204
                               /\ password_hash'[u]
                                     \in {Hash(q.password, s) : s \in Salts}
                          ELSE q2.status = 404]_vars

\* The non-root u2 set its own password: 204, its row holds a hash of the
\* new password and u1's row holds the hash it had.
C22_Witness ==
    \E r \in Reqs :
        LET q == req[r] IN
        /\ IsDone(q) /\ OwnPasswordUpdate(q)
        /\ q.route.user_uuid = "u2"
        /\ q.status = 204
        /\ q.db_writes = <<<<"update_password", "u2">>>>
        /\ password_hash["u2"].password = q.password
        /\ password_hash["u1"] = InitialHash

====
